---- MODULE Spec2Model ----
(***************************************************************************)
(* Monte Carlo Tree Search of richmao/P3MCTS: the three think() drivers    *)
(* (mcts_vanilla.py, experiment1/mcts_vanilla400.py,                       *)
(* experiment2/mcts_modified500.py) with their traverse_nodes,             *)
(* expand_leaf, rollout and backpropagate, run over a family of small      *)
(* two-player games.  Python 3 semantics (true division, insertion-ordered *)
(* dictionaries).                                                          *)
(***************************************************************************)
EXTENDS Integers, Sequences, FiniteSets, TLC

\* ---------------------------------------------------------------- bounds
MaxBudget == 4
MaxDepth == 2

Actions == {1, 2}
Players == {1, 2}
\* The player to move at the root. The three programs treat the two players
\* alike (a player is only ever compared with 1 or 2 to name the other one,
\* or used as a key of points_values), so a game with player 2 at the root
\* is a game with player 1 at the root with the names swapped.
FirstPlayers == {1}
Impls == {"vanilla", "vanilla400", "modified500"}

None == 0

VARIABLES
    impl,              \* which of the three source files runs
    widths,            \* game: widths[d+1] legal actions at every state of depth d
    resultOf,          \* game: winner of a final state, by its first and last move
    capt,              \* game: the moves that give their mover a box
    first,             \* game: the player to move at the root state
    short,             \* game: the first moves that end the game at once
    num_nodes,         \* iteration budget of think
    step,              \* think: completed iterations of the loop
    pc,                \* think: position in the code
    nodes,             \* the heap of MCTSNode objects, root is nodes[1]
    current,           \* traverse_nodes: current
    current_state,     \* traverse_nodes / rollout: current_state
    leaf,              \* think: leaf
    new_state,         \* think: new_state
    child,             \* think: child
    identity,          \* rollout: identity
    current_identity,  \* rollout (modified500): current_identity
    won,               \* think: won
    returned,          \* think: the returned action, None before the return
    error              \* the exception that ended think, "none" otherwise

vars == <<impl, widths, resultOf, capt, first, short, num_nodes, step, pc, nodes,
          current, current_state, leaf, new_state, child, identity,
          current_identity, won, returned, error>>

game == <<impl, widths, resultOf, capt, first, short, num_nodes>>

\* ------------------------------------------------------ Game Abstraction
\* The board object is outside the repository's three files; it follows the
\* interface of spec section 6: players 1 and 2 alternate, a state is the
\* sequence of moves played, legal_actions is empty exactly at ended states.
\* A game ends after Len(widths) moves, or at once after a first move in short.

Other(p) == IF p = 2 THEN 1 ELSE 2

Last(s) == s[Len(s)]

is_ended(s) == Len(s) >= Len(widths) \/ (s # << >> /\ s[1] \in short)

legal_actions(s) ==
    IF is_ended(s) THEN << >> ELSE [i \in 1..widths[Len(s) + 1] |-> i]

next_state(s, a) == Append(s, a)

current_player(s) == IF Len(s) % 2 = 0 THEN first ELSE Other(first)

ResultKey(s) == IF s = << >> THEN <<1, 1>> ELSE <<s[1], Last(s)>>

points_values(s) ==
    [p \in Players |-> IF resultOf[ResultKey(s)] = p THEN 1
                       ELSE IF resultOf[ResultKey(s)] = 0 THEN 0 ELSE -1]

\* owned_boxes, counted as calculate_score does: the boxes of identity
calculate_score(s, id) ==
    Cardinality({i \in 1..Len(s) :
                    s[i] \in capt /\ current_player(SubSeq(s, 1, i - 1)) = id})

\* ------------------------------------------------------------ MCTSNode
MCTSNode(parent, parent_action, action_list) ==
    [parent |-> parent, parent_action |-> parent_action,
     child_nodes |-> << >>, untried_actions |-> action_list,
     wins |-> 0, visits |-> 0]

Range(s) == {s[i] : i \in 1..Len(s)}

\* list.remove(x): drops the first occurrence of x
RECURSIVE Remove(_, _)
Remove(s, x) ==
    IF s = << >> THEN << >>
    ELSE IF s[1] = x THEN Tail(s) ELSE <<s[1]>> \o Remove(Tail(s), x)

Keys(n) == {n.child_nodes[i][1] : i \in 1..Len(n.child_nodes)}
Kids(n) == {n.child_nodes[i][2] : i \in 1..Len(n.child_nodes)}

\* dict[key] = value on an insertion-ordered dict
DictSet(d, k, v) ==
    IF \E i \in 1..Len(d) : d[i][1] = k
    THEN [i \in 1..Len(d) |-> IF d[i][1] = k THEN <<k, v>> ELSE d[i]]
    ELSE Append(d, <<k, v>>)

\* --------------------------------------------------------- UCT arithmetic
\* Scores are kept as integers: a score x is held as x * Scale.
Scale == 84000000

\* explore_faction * sqrt(log(current.visits) / child.visits) * Scale,
\* row = current.visits, column = child.visits
ExploreTable ==
    << <<0, 0, 0, 0, 0, 0, 0, 0>>,
       <<139869175, 98902442, 80753506, 69934587, 62551397, 57101351, 52865579, 49451221>>,
       <<176088708, 124513520, 101664863, 88044354, 78749264, 71887914, 66555276, 62256760>>,
       <<197804884, 139869175, 114202703, 98902442, 88461033, 80753506, 74763219, 69934587>>,
       <<213130889, 150706297, 123051176, 106565444, 95315031, 87010321, 80555904, 75353148>>,
       <<224879121, 159013552, 129834021, 112439561, 100569000, 91806517, 84996319, 79506776>>,
       <<234353084, 165712655, 135303816, 117176542, 104805885, 95674246, 88577140, 82856327>>,
       <<242260517, 171304054, 139869175, 121130258, 108342197, 98902442, 91565869, 85652027>> >>

\* explore_faction * sqrt(log(current.visits / child.visits)) * Scale
ExploreTableVanilla ==
    << <<0, -1, -1, -1, -1, -1, -1, -1>>,
       <<139869175, 0, -1, -1, -1, -1, -1, -1>>,
       <<176088708, 106975919, 0, -1, -1, -1, -1, -1>>,
       <<197804884, 139869175, 90108484, 0, -1, -1, -1, -1>>,
       <<213130889, 160814768, 120073071, 79359962, 0, -1, -1, -1>>,
       <<224879121, 176088708, 139869175, 106975919, 71734536, 0, -1, -1>>,
       <<234353084, 188037183, 154641957, 125676553, 97450461, 65960206, 0, -1>>,
       <<242260517, 197804884, 166381865, 139869175, 115175442, 90108484, 61390472, 0>> >>

\* the exception raised while scoring child c of node cur, "none" if none
ScoreError(cur, c) ==
    IF c.visits = 0 THEN "ZeroDivisionError"
    ELSE IF cur.visits = 0 THEN "ValueError"
    ELSE "none"

ScoreErrorVanilla(cur, c) ==
    IF c.visits = 0 THEN "ZeroDivisionError"
    ELSE IF cur.visits < c.visits THEN "ValueError"
    ELSE "none"

\* the exploitation term is never flipped for the opponent's turn
child_UCT_no_flip(cur, c, s, id) ==
    ((c.wins * Scale) \div c.visits) + ExploreTable[cur.visits][c.visits]

\* child_UCT of vanilla400 / modified500
child_UCT(cur, c, s, id) ==
    (((IF current_player(s) = id THEN c.wins ELSE c.visits - c.wins) * Scale)
        \div c.visits)
    + ExploreTable[cur.visits][c.visits]

\* child_UCT of mcts_vanilla
child_UCT_vanilla(cur, c, s, id) ==
    (((IF current_player(s) = id THEN c.wins ELSE c.visits - c.wins) * Scale)
        \div c.visits)
    + ExploreTableVanilla[cur.visits][c.visits]

\* ------------------------------------------------ comparison passes
\* best_UCT is not updated when a greater score is met
RECURSIVE CollectBest_stale_best(_, _, _, _)
CollectBest_stale_best(scores, i, best, acc) ==
    IF i > Len(scores) THEN acc
    ELSE IF scores[i] = best
         THEN CollectBest_stale_best(scores, i + 1, best, Append(acc, i))
    ELSE IF scores[i] > best THEN CollectBest_stale_best(scores, i + 1, best, <<i>>)
    ELSE CollectBest_stale_best(scores, i + 1, best, acc)

\* "if u == best: append / elif u > best: reset" over the scores in dict
\* order; the result is the list best_children (as indices into scores)
RECURSIVE CollectBest(_, _, _, _)
CollectBest(scores, i, best, acc) ==
    IF i > Len(scores) THEN acc
    ELSE IF scores[i] = best THEN CollectBest(scores, i + 1, best, Append(acc, i))
    ELSE IF scores[i] > best THEN CollectBest(scores, i + 1, scores[i], <<i>>)
    ELSE CollectBest(scores, i + 1, best, acc)

\* "if u > best: best_child = child" (mcts_vanilla, traverse_nodes);
\* the result is the index of best_child, None when it was never assigned
RECURSIVE RunningBest(_, _, _, _)
RunningBest(scores, i, best, acc) ==
    IF i > Len(scores) THEN acc
    ELSE IF scores[i] > best THEN RunningBest(scores, i + 1, scores[i], i)
    ELSE RunningBest(scores, i + 1, best, acc)

\* "if ratio >= best_ratio: best_child = child" (mcts_vanilla, think)
RECURSIVE RunningBestGE(_, _, _, _)
RunningBestGE(scores, i, best, acc) ==
    IF i > Len(scores) THEN acc
    ELSE IF scores[i] >= best THEN RunningBestGE(scores, i + 1, scores[i], i)
    ELSE RunningBestGE(scores, i + 1, best, acc)

\* the first exception raised by a pass over the children, "none" if none
RECURSIVE FirstError(_, _)
FirstError(errs, i) ==
    IF i > Len(errs) THEN "none"
    ELSE IF errs[i] # "none" THEN errs[i] ELSE FirstError(errs, i + 1)

\* the ratio taken for the win count
Ratio_wins_only(c) == c.wins * Scale

\* child.wins / child.visits, times Scale
Ratio(c) == (c.wins * Scale) \div c.visits

\* --------------------------------------------------------- traverse_nodes
\* the loop exit test of traverse_nodes (the same in the three files)
traverse_stops(ns, cur, s) ==
    ns[cur].untried_actions # << >> \/ is_ended(s)

\* one descent of vanilla400 / modified500: the exception raised, or the
\* nodes choice(best_children) can return
traverse_descend(ns, cur, s, id) ==
    LET kids == ns[cur].child_nodes
        errs == [i \in 1..Len(kids) |-> ScoreError(ns[cur], ns[kids[i][2]])]
        err == FirstError(errs, 1)
        scores == [i \in 1..Len(kids) |-> child_UCT(ns[cur], ns[kids[i][2]], s, id)]
        best == IF err = "none" THEN CollectBest(scores, 1, 0, << >>) ELSE << >>
    IN  IF err # "none" THEN [error |-> err, choices |-> {}]
        ELSE IF best = << >> THEN [error |-> "IndexError", choices |-> {}]
        ELSE [error |-> "none", choices |-> {kids[best[i]][2] : i \in 1..Len(best)}]

\* one descent of mcts_vanilla: best_child, or the exception
traverse_descend_vanilla(ns, cur, s, id) ==
    LET kids == ns[cur].child_nodes
        errs == [i \in 1..Len(kids) |-> ScoreErrorVanilla(ns[cur], ns[kids[i][2]])]
        err == FirstError(errs, 1)
        scores == [i \in 1..Len(kids) |->
                      child_UCT_vanilla(ns[cur], ns[kids[i][2]], s, id)]
        best == IF err = "none" THEN RunningBest(scores, 1, 0, None) ELSE None
    IN  IF err # "none" THEN [error |-> err, choices |-> {}]
        ELSE IF best = None THEN [error |-> "AttributeError", choices |-> {}]
        ELSE [error |-> "none", choices |-> {kids[best][2]}]

\* ------------------------------------------------------------ expand_leaf
\* choose_reasonable_action: the actions it can return (empty: choice of
\* an empty list, IndexError)
RECURSIVE FirstWinning(_, _, _, _)
FirstWinning(s, acts, id, i) ==
    IF i > Len(acts) THEN None
    ELSE IF calculate_score(next_state(s, acts[i]), id) > calculate_score(s, id)
         THEN acts[i]
         ELSE FirstWinning(s, acts, id, i + 1)

choose_reasonable_action(s, acts, id) ==
    LET w == FirstWinning(s, acts, id, 1)
    IN  IF w # None THEN {w}
        ELSE {acts[i] : i \in {j \in 1..Len(acts) :
                 calculate_score(next_state(s, acts[j]), id) = calculate_score(s, id)}}

\* the actions expand_leaf can choose
expand_choices(im, ns, node, s, id) ==
    IF im = "modified500"
    THEN choose_reasonable_action(s, ns[node].untried_actions, id)
    ELSE Range(ns[node].untried_actions)

\* the chosen action is not removed from untried_actions
expand_leaf_keep_untried(ns, node, s, a) ==
    LET c == MCTSNode(node, a, legal_actions(next_state(s, a)))
        id == Len(ns) + 1
    IN  Append([ns EXCEPT ![node].child_nodes = DictSet(@, a, id)], c)

\* expand_leaf of vanilla400 / modified500 with chosen_action = a: the
\* child is the new last object of the heap
expand_leaf(ns, node, s, a) ==
    LET c == MCTSNode(node, a, legal_actions(next_state(s, a)))
        id == Len(ns) + 1
    IN  Append([ns EXCEPT ![node].untried_actions = Remove(@, a),
                          ![node].child_nodes = DictSet(@, a, id)], c)

\* expand_leaf of mcts_vanilla with chosen_action = a
expand_leaf_vanilla(ns, node, s, a) ==
    LET c == MCTSNode(node, a, legal_actions(next_state(s, a)))
    IN  Append([ns EXCEPT ![node].untried_actions = Remove(@, a)], c)

\* leaf.child_nodes[child.parent_action] = child (mcts_vanilla, think)
register_child(ns, node, c) ==
    [ns EXCEPT ![node].child_nodes = DictSet(@, ns[c].parent_action, c)]

\* ---------------------------------------------------------------- rollout
\* the moves one turn of the rollout loop can play
rollout_moves(im, s, cid) ==
    IF im = "modified500"
    THEN choose_reasonable_action(s, legal_actions(s), cid)
    ELSE Range(legal_actions(s))

\* the value rollout returns at the final state f
rollout_result(f, id) == points_values(f)[id] = 1

rollout_result_vanilla(f, id) == id # current_player(f)

\* ---------------------------------------------------------- backpropagate
RECURSIVE backpropagate_walk(_, _, _)
backpropagate_walk(ns, node, w) ==
    LET upd == [ns EXCEPT ![node].wins = @ + (IF w THEN 1 ELSE 0),
                          ![node].visits = @ + 1]
    IN  IF ns[node].parent = None THEN upd
        ELSE backpropagate_walk(upd, ns[node].parent, w)

\* the two counters exchanged: wins counts the simulations, visits the wins
RECURSIVE backpropagate_swapped(_, _, _)
backpropagate_swapped(ns, node, w) ==
    LET upd == [ns EXCEPT ![node].visits = @ + (IF w THEN 1 ELSE 0),
                          ![node].wins = @ + 1]
    IN  IF ns[node].parent = None THEN upd
        ELSE backpropagate_swapped(upd, ns[node].parent, w)

\* the walk ends at the root without updating it
RECURSIVE backpropagate_skip_root(_, _, _)
backpropagate_skip_root(ns, node, w) ==
    IF ns[node].parent = None THEN ns
    ELSE backpropagate_skip_root(
            [ns EXCEPT ![node].wins = @ + (IF w THEN 1 ELSE 0),
                       ![node].visits = @ + 1],
            ns[node].parent, w)

\* the walk starts at the parent of the given node
backpropagate_from_parent(ns, node, w) ==
    IF ns[node].parent = None THEN ns
    ELSE backpropagate_walk(ns, ns[node].parent, w)

\* the given node is counted before the walk and again by it
backpropagate_twice(ns, node, w) ==
    backpropagate_walk([ns EXCEPT ![node].visits = @ + 1], node, w)

\* the win is counted on the given node only, the visits on the whole path
backpropagate_wins_leaf_only(ns, node, w) ==
    LET upd == [ns EXCEPT ![node].wins = @ + (IF w THEN 1 ELSE 0),
                          ![node].visits = @ + 1]
    IN  IF ns[node].parent = None THEN upd
        ELSE backpropagate_walk(upd, ns[node].parent, FALSE)

RECURSIVE backpropagate(_, _, _)
backpropagate(ns, node, w) ==
    LET upd == [ns EXCEPT ![node].wins = @ + (IF w THEN 1 ELSE 0),
                          ![node].visits = @ + 1]
    IN  IF ns[node].parent = None THEN upd
        ELSE backpropagate(upd, ns[node].parent, w)

\* ------------------------------------------------- think, best-child pass
think_best(ns) ==
    LET kids == ns[1].child_nodes
        errs == [i \in 1..Len(kids) |->
                    IF ns[kids[i][2]].visits = 0 THEN "ZeroDivisionError" ELSE "none"]
        err == FirstError(errs, 1)
        scores == [i \in 1..Len(kids) |-> Ratio(ns[kids[i][2]])]
        best == IF err = "none" THEN CollectBest(scores, 1, 0, << >>) ELSE << >>
    IN  IF err # "none" THEN [error |-> err, choices |-> {}]
        ELSE IF best = << >> THEN [error |-> "IndexError", choices |-> {}]
        ELSE [error |-> "none", choices |-> {kids[best[i]][2] : i \in 1..Len(best)}]

think_best_vanilla(ns) ==
    LET kids == ns[1].child_nodes
        errs == [i \in 1..Len(kids) |->
                    IF ns[kids[i][2]].visits = 0 THEN "ZeroDivisionError" ELSE "none"]
        err == FirstError(errs, 1)
        scores == [i \in 1..Len(kids) |-> Ratio(ns[kids[i][2]])]
        best == IF err = "none" THEN RunningBestGE(scores, 1, 0, None) ELSE None
    IN  IF err # "none" THEN [error |-> err, choices |-> {}]
        ELSE IF best = None THEN [error |-> "AttributeError", choices |-> {}]
        ELSE [error |-> "none", choices |-> {kids[best][2]}]

\* ------------------------------------------------------------------ think
root_state == << >>
root_node == 1
identity_of_bot == current_player(root_state)

Games ==
    UNION {[1..d -> Actions] : d \in 0..MaxDepth}

\* the (first move, last move) pairs of the final states of a game
FinalKeys(w, sh) ==
    IF Len(w) = 0 THEN {<<1, 1>>}
    ELSE IF Len(w) = 1 THEN {<<a, a>> : a \in 1..w[1]}
    ELSE {<<a, a>> : a \in sh} \cup (((1..w[1]) \ sh) \X (1..w[Len(w)]))

\* a game of depth 2 or more may end at once after some, not all, first moves
Shorts(w) ==
    IF Len(w) >= 2 THEN {sh \in SUBSET (1..w[1]) : sh # 1..w[1]} ELSE {{}}

Init ==
    /\ impl \in Impls
    /\ widths \in Games
    /\ short \in Shorts(widths)
    /\ resultOf \in {r \in [Actions \X Actions -> {0, 1, 2}] :
                        \A k \in (Actions \X Actions) \ FinalKeys(widths, short) : r[k] = 0}
    /\ capt \in IF impl = "modified500" THEN SUBSET Actions ELSE {{}}
    /\ first \in FirstPlayers
    /\ num_nodes \in 0..MaxBudget
    /\ step = 0
    /\ pc = "loop"
    /\ nodes = <<MCTSNode(None, None, legal_actions(root_state))>>
    /\ current = None
    /\ current_state = << >>
    /\ leaf = None
    /\ new_state = << >>
    /\ child = None
    /\ identity = None
    /\ current_identity = None
    /\ won = FALSE
    /\ returned = None
    /\ error = "none"

Fail(e) ==
    /\ pc' = "failed"
    /\ error' = e
    /\ UNCHANGED <<game, step, nodes, current, current_state, leaf, new_state,
                   child, identity, current_identity, won, returned>>

\* the call rollout(board, s, ...) begins
EnterRollout(s) ==
    /\ current_state' = s
    /\ identity' = IF impl = "vanilla"
                   THEN (IF current_player(s) = 2 THEN 1 ELSE 2)
                   ELSE identity_of_bot
    /\ current_identity' = IF impl = "modified500"
                           THEN (IF identity_of_bot = 2 THEN 1 ELSE 2)
                           ELSE current_identity
    /\ pc' = "rollout"

\* for step in range(num_nodes): ... traverse_nodes(node, board, sampled_game, identity_of_bot)
IterStart ==
    /\ pc = "loop"
    /\ step < num_nodes
    /\ current' = root_node
    /\ current_state' = root_state
    /\ pc' = "traverse"
    /\ UNCHANGED <<game, step, nodes, leaf, new_state, child, identity,
                   current_identity, won, returned, error>>

\* the state given to traverse_nodes is returned, not the state reached
TraverseReturn_initial_state ==
    /\ pc = "traverse"
    /\ traverse_stops(nodes, current, current_state)
    /\ leaf' = current
    /\ new_state' = root_state
    /\ pc' = "expand"
    /\ UNCHANGED <<game, step, nodes, current, current_state, child, identity,
                   current_identity, won, returned, error>>

\* traverse_nodes leaves its loop and returns current, current_state
TraverseReturn ==
    /\ pc = "traverse"
    /\ traverse_stops(nodes, current, current_state)
    /\ leaf' = current
    /\ new_state' = current_state
    /\ pc' = "expand"
    /\ UNCHANGED <<game, step, nodes, current, current_state, child, identity,
                   current_identity, won, returned, error>>

\* one turn of the loop of traverse_nodes that descends to a child
TraverseDescend ==
    /\ pc = "traverse"
    /\ ~traverse_stops(nodes, current, current_state)
    /\ LET r == IF impl = "vanilla"
                THEN traverse_descend_vanilla(nodes, current, current_state, identity_of_bot)
                ELSE traverse_descend(nodes, current, current_state, identity_of_bot)
       IN  IF r.error # "none" THEN Fail(r.error)
           ELSE \E c \in r.choices :
                  /\ current' = c
                  /\ current_state' = next_state(current_state, nodes[c].parent_action)
                  /\ UNCHANGED <<game, step, pc, nodes, leaf, new_state, child,
                                 identity, current_identity, won, returned, error>>

\* the test of think that guards the expansion
think_expands(im, ns, lf, s) ==
    IF im = "vanilla" THEN ns[lf].untried_actions # << >> ELSE ~is_ended(s)

\* child = expand_leaf(leaf, board, new_state); new_state = next_state(...)
ExpandLeaf ==
    /\ pc = "expand"
    /\ think_expands(impl, nodes, leaf, new_state)
    /\ LET cs == expand_choices(impl, nodes, leaf, new_state, identity_of_bot)
       IN  IF cs = {} THEN Fail("IndexError")
           ELSE \E a \in cs :
                  /\ child' = Len(nodes) + 1
                  /\ IF impl = "vanilla"
                     THEN /\ nodes' = expand_leaf_vanilla(nodes, leaf, new_state, a)
                          /\ pc' = "register"
                          /\ UNCHANGED <<new_state, current_state, identity,
                                         current_identity>>
                     ELSE /\ nodes' = expand_leaf(nodes, leaf, new_state, a)
                          /\ new_state' = next_state(new_state, a)
                          /\ EnterRollout(next_state(new_state, a))
                  /\ UNCHANGED <<game, step, current, leaf, won, returned, error>>

\* mcts_vanilla: leaf.child_nodes[child.parent_action] = child, then the
\* call of rollout on next_state(new_state, child.parent_action)
Register ==
    /\ pc = "register"
    /\ nodes' = register_child(nodes, leaf, child)
    /\ EnterRollout(next_state(new_state, nodes[child].parent_action))
    /\ UNCHANGED <<game, step, current, leaf, new_state, child, won, returned, error>>

\* the else branch: child = leaf (vanilla400, modified500); mcts_vanilla
\* has no else branch and the iteration ends
NoExpand ==
    /\ pc = "expand"
    /\ ~think_expands(impl, nodes, leaf, new_state)
    /\ IF impl = "vanilla"
       THEN /\ step' = step + 1
            /\ pc' = "loop"
            /\ UNCHANGED <<child, current_state, identity, current_identity>>
       ELSE /\ child' = leaf
            /\ EnterRollout(new_state)
            /\ UNCHANGED step
    /\ UNCHANGED <<game, nodes, current, leaf, new_state, won, returned, error>>

\* one turn of the loop of rollout
RolloutStep ==
    /\ pc = "rollout"
    /\ ~is_ended(current_state)
    /\ LET ms == rollout_moves(impl, current_state, current_identity)
       IN  IF ms = {} THEN Fail("IndexError")
           ELSE \E move \in ms :
                  /\ current_state' = next_state(current_state, move)
                  /\ current_identity' = IF impl = "modified500"
                                         THEN (IF current_identity = 2 THEN 1 ELSE 2)
                                         ELSE current_identity
                  /\ UNCHANGED <<game, step, pc, nodes, current, leaf, new_state,
                                 child, identity, won, returned, error>>

\* rollout returns
RolloutReturn ==
    /\ pc = "rollout"
    /\ is_ended(current_state)
    /\ won' = IF impl = "vanilla"
              THEN rollout_result_vanilla(current_state, identity)
              ELSE rollout_result(current_state, identity)
    /\ pc' = "backprop"
    /\ UNCHANGED <<game, step, nodes, current, current_state, leaf, new_state,
                   child, identity, current_identity, returned, error>>

\* backpropagate(child, won), the last statement of an iteration
Backpropagate ==
    /\ pc = "backprop"
    /\ nodes' = backpropagate(nodes, child, won)
    /\ step' = step + 1
    /\ pc' = "loop"
    /\ UNCHANGED <<game, current, current_state, leaf, new_state, child,
                   identity, current_identity, won, returned, error>>

\* the best-child pass after the loop and the return
BestChild ==
    /\ pc = "loop"
    /\ step >= num_nodes
    /\ LET r == IF impl = "vanilla" THEN think_best_vanilla(nodes)
                ELSE think_best(nodes)
       IN  IF r.error # "none" THEN Fail(r.error)
           ELSE \E c \in r.choices :
                  /\ returned' = nodes[c].parent_action
                  /\ pc' = "done"
                  /\ UNCHANGED <<game, step, nodes, current, current_state, leaf,
                                 new_state, child, identity, current_identity,
                                 won, error>>

Next ==
    \/ IterStart
    \/ TraverseReturn
    \/ TraverseDescend
    \/ ExpandLeaf
    \/ Register
    \/ NoExpand
    \/ RolloutStep
    \/ RolloutReturn
    \/ Backpropagate
    \/ BestChild

Spec == Init /\ [][Next]_vars

\* think runs in one thread to completion: while a statement remains, the
\* next one is executed
FairSpec == Init /\ [][Next]_vars /\ WF_vars(Next)

TypeOK ==
    /\ pc \in {"loop", "traverse", "expand", "register", "rollout", "backprop",
               "done", "failed"}
    /\ step \in 0..num_nodes
    /\ \A n \in 1..Len(nodes) : nodes[n].wins \in Nat /\ nodes[n].visits \in Nat

\* ---------------------------------------------------------------- claims
Root == nodes[root_node]

\* the nodes on the parent chain from n up to the root
RECURSIVE PathToRoot(_, _)
PathToRoot(ns, n) ==
    IF ns[n].parent = None THEN {n} ELSE {n} \cup PathToRoot(ns, ns[n].parent)

RECURSIVE SumVisits(_, _, _)
SumVisits(ns, kids, i) ==
    IF i > Len(kids) THEN 0 ELSE ns[kids[i][2]].visits + SumVisits(ns, kids, i + 1)

Finished == pc \in {"done", "failed"}

\* C1: from a non-terminal root with at least one legal action and a budget
\* of at least 1, think never fails and the action it returns is legal at
\* the root.
C1_ThinkReturnsLegalAction ==
    (~is_ended(root_state) /\ legal_actions(root_state) # << >> /\ num_nodes >= 1)
        => /\ pc # "failed"
           /\ pc = "done" => returned \in Range(legal_actions(root_state))

\* C2: the child registered under the returned action has a wins/visits
\* ratio at least that of every direct child of the root.
C2_ReturnedChildHasBestRatio ==
    pc = "done" =>
        \E i \in 1..Len(Root.child_nodes) :
            /\ Root.child_nodes[i][1] = returned
            /\ \A c \in Kids(Root) :
                  nodes[Root.child_nodes[i][2]].wins * nodes[c].visits
                      >= nodes[c].wins * nodes[Root.child_nodes[i][2]].visits

C2_Witness ==
    /\ pc = "done"
    /\ \E c, d \in Kids(Root) :
          /\ nodes[c].parent_action = returned
          /\ nodes[c].wins * nodes[d].visits > nodes[d].wins * nodes[c].visits
          /\ nodes[d].wins > 0

\* C3: with a terminal root state, or a budget of 0, think ends in an
\* explicit "no decision possible" error: no action is returned and no
\* other exception ends the call.
C3_NoDecisionIsExplicitError ==
    (Finished /\ (is_ended(root_state) \/ num_nodes = 0))
        => (pc = "failed" /\ error = "NoDecisionPossible")

\* C4: every node has 0 <= wins <= visits in every state, and at the end of
\* every iteration every node but the root has visits >= 1.
C4_WinsVisitsBounds ==
    /\ \A n \in 1..Len(nodes) :
          0 <= nodes[n].wins /\ nodes[n].wins <= nodes[n].visits
    /\ pc \in {"loop", "done"} =>
          \A n \in 2..Len(nodes) : nodes[n].visits >= 1

C4_Witness ==
    /\ pc = "loop"
    /\ step >= 2
    /\ \E n, m \in 2..Len(nodes) :
          /\ nodes[n].wins = nodes[n].visits
          /\ nodes[m].wins < nodes[m].visits /\ nodes[m].wins > 0

\* C5: one call backpropagate(node, won) adds 1 to visits, and 1 to wins iff
\* won, on node and each of its ancestors up to the root, and changes
\* nothing else in the tree.
C5_BackpropagateEffect ==
    [][Backpropagate =>
        LET path == PathToRoot(nodes, child)
        IN  /\ root_node \in path
            /\ Len(nodes') = Len(nodes)
            /\ \A n \in 1..Len(nodes) :
                  /\ nodes'[n].visits = nodes[n].visits + (IF n \in path THEN 1 ELSE 0)
                  /\ nodes'[n].wins =
                        nodes[n].wins + (IF n \in path /\ won THEN 1 ELSE 0)
                  /\ nodes'[n].child_nodes = nodes[n].child_nodes
                  /\ nodes'[n].untried_actions = nodes[n].untried_actions
                  /\ nodes'[n].parent = nodes[n].parent
                  /\ nodes'[n].parent_action = nodes[n].parent_action]_vars

\* a backpropagation from a grandchild of the root, with a win, has just
\* ended and a node off its path exists
C5_Witness ==
    /\ pc = "loop"
    /\ step >= 1
    /\ won
    /\ child # None /\ nodes[child].parent \notin {None, root_node}
    /\ nodes[child].visits = 1
    /\ \E n \in 1..Len(nodes) : n \notin PathToRoot(nodes, child)

\* C6: every iteration backpropagates exactly once, so after k iterations
\* root.visits = k, and root.visits = N when think completes.
C6_RootVisitsCountIterations ==
    /\ pc = "loop" => Root.visits = step
    /\ pc = "done" => Root.visits = num_nodes

\* C7: one call of expand_leaf moves exactly one action a from
\* untried_actions to the keys of the children, keeps the two disjoint with
\* the same union, and the new child has parent = node, parent_action = a,
\* visits = wins = 0 and untried_actions = legal_actions(next_state(state, a)).
C7_ExpandLeafEffect ==
    [][(ExpandLeaf /\ pc' # "failed") =>
        LET n == nodes[leaf]
            m == nodes'[leaf]
            c == nodes'[child']
            a == c.parent_action
        IN  /\ a \in Range(n.untried_actions)
            /\ Len(m.untried_actions) = Len(n.untried_actions) - 1
            /\ Range(m.untried_actions) = Range(n.untried_actions) \ {a}
            /\ Len(m.child_nodes) = Len(n.child_nodes) + 1
            /\ Keys(m) = Keys(n) \cup {a}
            /\ \E i \in 1..Len(m.child_nodes) : m.child_nodes[i] = <<a, child'>>
            /\ Range(m.untried_actions) \cap Keys(m) = {}
            /\ Range(m.untried_actions) \cup Keys(m)
                  = Range(n.untried_actions) \cup Keys(n)
            /\ c.parent = leaf
            /\ c.visits = 0 /\ c.wins = 0
            /\ c.child_nodes = << >>
            /\ c.untried_actions = legal_actions(next_state(new_state, a))]_vars

\* C8: whenever traverse_nodes scores the children of the current node, the
\* current node and every one of its children have visits >= 1.
C8_ScoredNodesVisited ==
    (pc = "traverse" /\ ~traverse_stops(nodes, current, current_state))
        => \A c \in Kids(nodes[current]) :
              nodes[c].visits >= 1 /\ nodes[current].visits >= 1

C8_Witness ==
    /\ pc = "traverse"
    /\ ~traverse_stops(nodes, current, current_state)
    /\ current # root_node
    /\ Cardinality(Kids(nodes[current])) >= 1

\* C9: rollout returns win iff points_values of the final state is 1 for
\* the bot, the player to move at the root.
C9_RolloutWinIffPointsOne ==
    pc = "backprop" =>
        (won <=> points_values(current_state)[identity_of_bot] = 1)

\* C10: after k iterations the visits of the root's direct children sum to
\* at most k, and to at most N when think completes.
C10_RootChildrenVisitsBounded ==
    /\ pc = "loop" => SumVisits(nodes, Root.child_nodes, 1) <= step
    /\ pc = "done" => SumVisits(nodes, Root.child_nodes, 1) <= num_nodes

C10_Witness ==
    /\ pc = "done"
    /\ Len(Root.child_nodes) = 2
    /\ SumVisits(nodes, Root.child_nodes, 1) = num_nodes
    /\ num_nodes >= 3

\* the child of the root registered under action a, None if there is none
RootChild(a) ==
    IF \E i \in 1..Len(Root.child_nodes) : Root.child_nodes[i][1] = a
    THEN (CHOOSE i \in 1..Len(Root.child_nodes) : Root.child_nodes[i][1] = a)
    ELSE None

RootKid(a) ==
    IF RootChild(a) = None THEN None ELSE Root.child_nodes[RootChild(a)][2]

\* every simulation so far through the root child of a was a win, and none
\* through the root child of b was
ForcedOutcomes(a, b) ==
    /\ RootKid(a) # None => nodes[RootKid(a)].wins = nodes[RootKid(a)].visits
    /\ RootKid(b) # None => nodes[RootKid(b)].wins = 0

\* C11: with exactly two legal actions A and B at the root, all simulations
\* through A won and none through B won, and a budget of at least 2, think
\* does not fail and returns A, whose wins/visits is strictly greater than B's.
C11_FavouredActionReturned ==
    \A a \in Actions :
        (/\ Finished
         /\ Len(legal_actions(root_state)) = 2
         /\ num_nodes >= 2
         /\ ForcedOutcomes(a, Other(a)))
            => /\ pc # "failed"
               /\ pc = "done" =>
                    /\ returned = a
                    /\ RootKid(a) # None /\ RootKid(Other(a)) # None
                    /\ nodes[RootKid(a)].wins * nodes[RootKid(Other(a))].visits
                          > nodes[RootKid(Other(a))].wins * nodes[RootKid(a)].visits

C11_Witness ==
    /\ pc = "done"
    /\ Len(legal_actions(root_state)) = 2
    /\ num_nodes >= 3
    /\ ForcedOutcomes(2, 1)
    /\ returned = 2
    /\ nodes[RootKid(2)].visits >= 2

\* the game state of node n: the parent_actions from the root down to n
RECURSIVE NodeState(_, _)
NodeState(ns, n) ==
    IF ns[n].parent = None THEN root_state
    ELSE Append(NodeState(ns, ns[n].parent), ns[n].parent_action)

\* the nodes a descent to n has passed through
PassedThrough(ns, n) == PathToRoot(ns, n) \ {n}

\* C12: traverse_nodes returns a node with an untried action or a terminal
\* state; every node passed through had no untried action and a
\* non-terminal state; the returned state is the initial state advanced by
\* the parent_actions on the path from the root to the returned node.
C12_TraverseResult ==
    /\ pc = "traverse" =>
          /\ current_state = NodeState(nodes, current)
          /\ \A n \in PassedThrough(nodes, current) :
                /\ nodes[n].untried_actions = << >>
                /\ ~is_ended(NodeState(nodes, n))
    /\ pc = "expand" =>
          /\ nodes[leaf].untried_actions # << >> \/ is_ended(new_state)
          /\ new_state = NodeState(nodes, leaf)
          /\ \A n \in PassedThrough(nodes, leaf) :
                /\ nodes[n].untried_actions = << >>
                /\ ~is_ended(NodeState(nodes, n))

\* a descent of two levels has returned a node of a final state
C12_Witness ==
    /\ pc = "expand"
    /\ nodes[leaf].parent \notin {None, root_node}
    /\ is_ended(new_state)
    /\ Len(new_state) = 2

\* all children of node n have the same visits count
EqualVisits(ns, n) ==
    \A c, d \in Kids(ns[n]) : ns[c].visits = ns[d].visits

\* C13: at a descent step where all children of the current node have the
\* same visits, the child descended to has the greatest wins among them
\* when the bot is to move at the current state, and the smallest wins
\* when the opponent is.
C13_AdversarialFlip ==
    [][(TraverseDescend /\ pc' # "failed" /\ EqualVisits(nodes, current)) =>
          IF current_player(current_state) = identity_of_bot
          THEN \A c \in Kids(nodes[current]) : nodes[current'].wins >= nodes[c].wins
          ELSE \A c \in Kids(nodes[current]) : nodes[current'].wins <= nodes[c].wins]_vars

\* a descent on the opponent's turn has just chosen, among children of
\* equal visits, the one with strictly fewer wins
C13_Witness ==
    /\ pc = "traverse"
    /\ current # root_node
    /\ current_player(NodeState(nodes, nodes[current].parent)) # identity_of_bot
    /\ EqualVisits(nodes, nodes[current].parent)
    /\ \E c \in Kids(nodes[nodes[current].parent]) :
          nodes[c].wins > nodes[current].wins

\* the score traverse_nodes gives to child c of the current node
ScoreOf(c) ==
    IF impl = "vanilla"
    THEN child_UCT_vanilla(nodes[current], nodes[c], current_state, identity_of_bot)
    ELSE child_UCT(nodes[current], nodes[c], current_state, identity_of_bot)

MaxScoreKids ==
    {c \in Kids(nodes[current]) :
        \A d \in Kids(nodes[current]) : ScoreOf(c) >= ScoreOf(d)}

MaxRatioKids ==
    {c \in Kids(Root) :
        \A d \in Kids(Root) :
            nodes[c].wins * nodes[d].visits >= nodes[d].wins * nodes[c].visits}

\* C14: in a descent step of traverse_nodes and in the best-child pass of
\* think, every child sharing the maximum is a possible choice and no other
\* child is.
C14_TieBreakNotPositional ==
    /\ (pc = "traverse" /\ ~traverse_stops(nodes, current, current_state)) =>
          \A c \in Kids(nodes[current]) :
              (c \in MaxScoreKids) <=> ENABLED (TraverseDescend /\ current' = c)
    /\ (pc = "loop" /\ step >= num_nodes) =>
          \A c \in Kids(Root) :
              (c \in MaxRatioKids)
                  <=> ENABLED (BestChild /\ returned' = nodes[c].parent_action)

\* following parent references from n reaches the root within fuel steps
RECURSIVE ReachesRoot(_, _, _)
ReachesRoot(ns, n, fuel) ==
    IF ns[n].parent = None THEN n = root_node
    ELSE /\ fuel > 0
         /\ ns[n].parent \in 1..Len(ns)
         /\ ReachesRoot(ns, ns[n].parent, fuel - 1)

\* C15: at the end of every iteration, at every node the untried actions and
\* the keys of the children are disjoint and together are the legal actions
\* of the node's state, every child is registered under its parent_action
\* with the node as parent and the successor state, and parent references
\* lead from every node to the root without a cycle.
C15_TreeWellFormed ==
    pc \in {"loop", "done"} =>
        /\ \A n \in 1..Len(nodes) : ReachesRoot(nodes, n, Len(nodes))
        /\ \A n \in 1..Len(nodes) :
              /\ Range(nodes[n].untried_actions) \cap Keys(nodes[n]) = {}
              /\ Range(nodes[n].untried_actions) \cup Keys(nodes[n])
                    = Range(legal_actions(NodeState(nodes, n)))
              /\ \A i \in 1..Len(nodes[n].child_nodes) :
                    LET a == nodes[n].child_nodes[i][1]
                        c == nodes[n].child_nodes[i][2]
                    IN  /\ c \in 1..Len(nodes)
                        /\ nodes[c].parent = n
                        /\ nodes[c].parent_action = a
                        /\ NodeState(nodes, c) = next_state(NodeState(nodes, n), a)
                        /\ \A j \in 1..Len(nodes[n].child_nodes) :
                              nodes[n].child_nodes[j][1] = a => j = i

\* the tree has a node two levels below the root and a node with both an
\* untried action and a child
C15_Witness ==
    /\ pc = "loop"
    /\ \E n \in 1..Len(nodes) : nodes[n].parent \notin {None, root_node}
    /\ \E n \in 1..Len(nodes) :
          nodes[n].untried_actions # << >> /\ nodes[n].child_nodes # << >>

\* C16: the fields of the tree's nodes change only inside expand_leaf and
\* backpropagate; traverse_nodes, rollout and the rest of think leave every
\* node unchanged, and rollout leaves the state passed to it unchanged.
C16_OnlyExpandAndBackpropagateMutate ==
    [][/\ nodes' # nodes => pc \in {"expand", "backprop"}
       /\ pc = "rollout" => new_state' = new_state]_vars

\* C17: on a finite game think eventually returns, after exactly N
\* iterations of its loop.
C17_ThinkEventuallyReturns ==
    <>(pc = "done" /\ step = num_nodes)

RECURSIVE SumWins(_, _, _)
SumWins(ns, kids, i) ==
    IF i > Len(kids) THEN 0 ELSE ns[kids[i][2]].wins + SumWins(ns, kids, i + 1)

\* C18: at the end of every iteration, every node of a non-terminal state
\* has visits = (0 for the root, 1 otherwise) + the visits of its children,
\* and wins >= the wins of its children.
C18_VisitConservation ==
    pc \in {"loop", "done"} =>
        \A n \in 1..Len(nodes) :
            \/ /\ nodes[n].visits = (IF n = root_node THEN 0 ELSE 1)
                                       + SumVisits(nodes, nodes[n].child_nodes, 1)
               /\ nodes[n].wins >= SumWins(nodes, nodes[n].child_nodes, 1)
            \/ is_ended(NodeState(nodes, n))

\* a node below the root has children that were visited and won
C18_Witness ==
    /\ pc = "loop"
    /\ \E n \in 2..Len(nodes) :
          /\ Len(nodes[n].child_nodes) >= 1
          /\ SumVisits(nodes, nodes[n].child_nodes, 1) >= 2
          /\ SumWins(nodes, nodes[n].child_nodes, 1) >= 1
          /\ nodes[n].wins > SumWins(nodes, nodes[n].child_nodes, 1)

\* C19: in modified500, at every call of choose_reasonable_action, from
\* expand_leaf and from every turn of rollout, the identity passed is the
\* player to move at the state passed, and the action returned is one of
\* the legal_actions list passed.
C19_HeuristicIdentityIsMover ==
    impl = "modified500" =>
        /\ (pc = "expand" /\ think_expands(impl, nodes, leaf, new_state)) =>
              /\ identity_of_bot = current_player(new_state)
              /\ choose_reasonable_action(new_state, nodes[leaf].untried_actions,
                                          identity_of_bot) # {}
              /\ choose_reasonable_action(new_state, nodes[leaf].untried_actions,
                                          identity_of_bot)
                    \subseteq Range(nodes[leaf].untried_actions)
        /\ (pc = "rollout" /\ ~is_ended(current_state)) =>
              /\ current_identity = current_player(current_state)
              /\ choose_reasonable_action(current_state, legal_actions(current_state),
                                          current_identity) # {}
              /\ choose_reasonable_action(current_state, legal_actions(current_state),
                                          current_identity)
                    \subseteq Range(legal_actions(current_state))

====
